---- MODULE Spec2Model ----
(***************************************************************************)
(* NeuralSignalGenerator (src/src/neural_signal_generator.cpp).            *)
(*                                                                         *)
(* The file holds two versions of the class:                               *)
(*   - the cluster generator, lines 8-70 (generateSignals, lines 15-66);   *)
(*   - the trajectory generator, lines 109-167 (generateSignals, lines     *)
(*     115-163).                                                           *)
(* Both are modelled here as one state machine; `mode` says which of the   *)
(* two generateSignals is running.                                         *)
(*                                                                         *)
(* Numbers.  The inputs are floats holding small integers, so that every   *)
(* float expression of the code is an exact rational here: a rational is   *)
(* an integer numerator over a positive integer denominator, and the       *)
(* static_cast<int> of the code is truncation toward zero (TruncDiv).      *)
(* The random generator std::mt19937 is a deterministic function of its    *)
(* seed; it is modelled by a small generator with the same property (the   *)
(* seed fixes the whole stream of draws), the seed being whatever          *)
(* std::random_device returns.                                             *)
(***************************************************************************)
EXTENDS Integers, Sequences, FiniteSets, TLC

VARIABLES
    m_samplePeriod,     \* the member set by the constructor
    mode,               \* "none", "trajectory" or "cluster": the running overload
    pc,                 \* position inside generateSignals
    startCoords,        \* std::array<float, 8>, indexed 0..7
    endCoords,          \* std::array<float, 8>, indexed 0..7
    numSignals,
    noiseType,
    noiseAmplitude,
    clusterStrength,    \* in halves: 1 stands for 0.5f
    seed,               \* the value rd() returned in this call
    gen,                \* state of std::mt19937 gen
    draws,              \* number of values taken from gen in this call
    numSamples,
    signals,            \* std::vector<std::array<int, 12>>, or NoBatch
    clusters,           \* std::vector<int> clusters[numClusters]
    clusterActivation,  \* float clusterActivation[numClusters], in 1/2000
    i,                  \* the outer loop variable
    t,                  \* the time loop variable (trajectory)
    neuron,             \* position of the range-for over signals[i] (cluster)
    outcome,            \* "none", "returned" or "length_error"
    calls,              \* number of calls of generateSignals made so far
    prev,               \* seed and result of the previous call, or NoCall
    poseIndices,        \* indices used on startCoords / endCoords in this call
    channelIndices      \* indices used on a std::array<int, 12> in this call

vars == <<m_samplePeriod, mode, pc, startCoords, endCoords, numSignals, noiseType,
          noiseAmplitude, clusterStrength, seed, gen, draws, numSamples, signals,
          clusters, clusterActivation, i, t, neuron, outcome, calls, prev,
          poseIndices, channelIndices>>

(***************************************************************************)
(* Bounds of the model.                                                    *)
(***************************************************************************)
MaxSignals == 2
MaxTime == 3
MaxPeriod == 2
MaxAmplitude == 1
GenModulus == 4

(***************************************************************************)
(* Program constants.                                                      *)
(***************************************************************************)
NumChannels == 12
PoseSize == 8
numClusters == 5
clusterSizes == <<4, 3, 2, 2, 1>>
Resolution == 1024
ClampMax == 200

Channels == 0 .. NumChannels - 1
NoBatch == <<"no batch">>
NoCall == [seed |-> -1, signals |-> NoBatch, outcome |-> "none"]
ZeroVector == [c \in Channels |-> 0]

\* static_cast<int>(num / den) and integer division of C++: toward zero.
\* (den > 0 wherever it is used).
TruncDiv(num, den) ==
    IF num >= 0 THEN num \div den ELSE -((-num) \div den)

Max(a, b) == IF a >= b THEN a ELSE b
Min(a, b) == IF a <= b THEN a ELSE b

(***************************************************************************)
(* The random source: std::random_device rd; std::mt19937 gen(rd()).       *)
(* A seed fixes the start value and the stride of the stream.              *)
(***************************************************************************)
Seeds == 0 .. GenModulus * GenModulus - 1

Seeded(s) == [g |-> s % GenModulus, c |-> s \div GenModulus]

\* gen(): the generator after n more draws, and the value of the n-th of them.
Advance(gn, n) == [gn EXCEPT !.g = (gn.g + n * gn.c) % GenModulus]

Raw(gn, n) == Advance(gn, n).g

(***************************************************************************)
(* Inputs of the calls.                                                    *)
(***************************************************************************)
Pose(xyz, time) == [k \in 0 .. PoseSize - 1 |-> IF k = 7 THEN time ELSE xyz[k + 1]]

StartPoses == { Pose(<<0, 0, 0, 0, 0, 0, 0>>, tm) : tm \in 0 .. MaxTime } \cup
              { Pose(<<-1, 2, 3, 1, -1, 2, 1>>, tm) : tm \in 0 .. MaxTime }

EndPoses == { Pose(<<10, 20, 30, 1, 0, 0, 1>>, tm) : tm \in 0 .. MaxTime } \cup
            { Pose(<<2, -3, 0, 0, 0, 0, 0>>, tm) : tm \in 0 .. MaxTime }

SignalCounts == -1 .. MaxSignals
NoiseTypes == {"gaussian", "uniform", "pink"}
Amplitudes == 0 .. MaxAmplitude
Periods == 1 .. MaxPeriod
Strengths == {0, 1, 2, 4}          \* clusterStrength 0, 0.5, 1 and 2, in halves

\* What the float read of startCoords[8], one past the array, may give.
BeyondArray == {0, 1}

(***************************************************************************)
(* Trajectory generator, lines 115-163.                                    *)
(***************************************************************************)
\* Allocate with one entry too many
AllocateOneMore(n) == [k \in 0 .. n |-> ZeroVector]

\* lines 35 and 128: std::vector<std::array<int, 12>> signals(numSignals)
Allocate(n) == [k \in 0 .. n - 1 |-> ZeroVector]

\* line 125: static_cast<int>(endCoords[7] - startCoords[7]) / m_samplePeriod + 1
NumSamples(sc, ec, period) == TruncDiv(TruncDiv(ec[7] - sc[7], 1), period) + 1

\* lines 138-140: start + (end - start) * static_cast<float>(t) / numSamples,
\* as the numerator of a rational whose denominator is n.
Interpolate(s, e, tt, n) == s * n + (e - s) * tt

\* NoiseSample with the amplitude left out
NoiseSampleUnscaled(kind, amp, r) ==
    IF kind = "uniform" THEN 2 * r - GenModulus ELSE 3 * (2 * r - GenModulus)

\* lines 144 and 149: one draw of the noise distribution, as the numerator of a
\* rational whose denominator is GenModulus.  The uniform distribution gives
\* -a + 2a*u, the normal one a value of mean 0 that scales with its stddev a.
NoiseSample(kind, amp, r) ==
    IF kind = "uniform" THEN amp * (2 * r - GenModulus)
    ELSE 3 * amp * (2 * r - GenModulus)

\* lines 145-147, 150-152: static_cast<int>((x + noise) * 1024)
Quantize(xnum, n, noise) ==
    TruncDiv((xnum * GenModulus + noise * n) * Resolution, n * GenModulus)

\* lines 132-134: for j < 6, signals[i][j] = static_cast<int>(startCoords[j + 3] * 1024);
\* j = 5 reads startCoords[8].
InitialSample(vec, sc, beyond) ==
    [c \in Channels |->
        IF c < 6
        THEN (IF c + 3 < PoseSize THEN sc[c + 3] ELSE beyond) * Resolution
        ELSE vec[c]]

\* lines 143-153: the two recognized branches write channels 0..2.
Noised(vec, kind, amp, tt, n, sc, ec, gn) ==
    IF kind \in {"gaussian", "uniform"}
    THEN [c \in Channels |->
            IF c < 3
            THEN Quantize(Interpolate(sc[c], ec[c], tt, n), n,
                          NoiseSample(kind, amp, Raw(gn, c + 1)))
            ELSE vec[c]]
    ELSE vec

\* lines 156-158: for j < 6, signals[i][j + 3] = static_cast<int>(x * 1024)
Updated(vec, tt, n, sc, ec) ==
    [c \in Channels |->
        IF c >= 3 /\ c < 6 + 3
        THEN Quantize(Interpolate(sc[0], ec[0], tt, n), n, 0)
        ELSE vec[c]]

\* number of values the body of the time loop takes from gen
DrawsPerStep(kind) == IF kind \in {"gaussian", "uniform"} THEN 3 ELSE 0

(***************************************************************************)
(* Cluster generator, lines 15-66.                                         *)
(***************************************************************************)
\* lines 27-32: clusters[i].push_back(i * clusterSizes[i] + j)
BuildClusters ==
    [a \in 0 .. numClusters - 1 |->
        [b \in 1 .. clusterSizes[a + 1] |-> a * clusterSizes[a + 1] + (b - 1)]]

\* std::pow(std::sin(u), 2) for the draw u = r / GenModulus, in 1/1000
\* (u^2 - u^4/3 + 2u^6/45, the series of sin^2 up to the sixth power).
SinSquared(r) ==
    LET m2 == GenModulus * GenModulus
        r2 == r * r
    IN TruncDiv(1000 * (45 * r2 * m2 * m2 - 15 * r2 * r2 * m2 + 2 * r2 * r2 * r2),
                45 * m2 * m2 * m2)

\* std::pow(std::cos(u), 2), in 1/1000
CosSquared(r) == 1000 - SinSquared(r)

\* lines 42-44: sin^2(u1) * clusterStrength + cos^2(u2) * (1 - clusterStrength),
\* in 1/2000 (strength in halves).
Activation(rs, rc, strength) ==
    SinSquared(rs) * strength + CosSquared(rc) * (2 - strength)

\* lines 51-52: static_cast<int>(clusterActivation[j] * (dist(gen) * 100 + 50))
Magnitude(act, r) ==
    TruncDiv(act * (r * 100 + 50 * GenModulus), 2000 * GenModulus)

\* lines 48-49: the (cluster, neuron) pairs in the order the nested loops visit them
RECURSIVE Visits(_, _)
Visits(table, a) ==
    IF a >= numClusters THEN <<>>
    ELSE [b \in 1 .. Len(table[a]) |-> <<a, table[a][b]>>] \o Visits(table, a + 1)

\* lines 48-54: every visit writes signals[i][neuron] from a fresh draw
RECURSIVE Simulated(_, _, _, _, _)
Simulated(vec, visits, k, act, gn) ==
    IF k > Len(visits) THEN vec
    ELSE Simulated([vec EXCEPT ![visits[k][2]] = Magnitude(act[visits[k][1]], Raw(gn, k))],
                   visits, k + 1, act, gn)

\* line 58: std::max(0, std::min(neuron, 200))
Clamped(v) == Max(0, Min(v, ClampMax))

\* line 59: dist(gen) < 0.1f
NoiseChance(r) == 10 * r < GenModulus

\* Perturbed with the perturbation twice as wide
PerturbedWide(v, r) == TruncDiv(v * GenModulus + r * 100 - 50 * GenModulus, GenModulus)

\* line 60: neuron += dist(gen) * 50 - 25, the int converted to float and back
Perturbed(v, r) == TruncDiv(v * GenModulus + r * 50 - 25 * GenModulus, GenModulus)

(***************************************************************************)
(* The indices the code applies to its arrays.                             *)
(***************************************************************************)
\* lines 125 and 136: endCoords[7], startCoords[7]
TimeIndex == {7}

\* lines 132-133: startCoords[j + 3] for j = 0..5
InitialPoseIndices == {j + 3 : j \in 0 .. 5}

\* lines 132-133: signals[i][j] for j = 0..5
InitialChannelIndices == 0 .. 5

\* lines 138-140: startCoords[0..2], endCoords[0..2]
AxisIndices == 0 .. 2

\* lines 145-147, 150-152: signals[i][0..2], in the recognized branches only
NoisedChannelIndices(kind) == IF kind \in {"gaussian", "uniform"} THEN 0 .. 2 ELSE {}

\* lines 156-157: signals[i][j + 3] for j = 0..5
UpdatedChannelIndices == {j + 3 : j \in 0 .. 5}

\* lines 49-50: signals[i][neuron] for every neuron of the cluster table
NeuronIndices(table) ==
    UNION {{table[a][b] : b \in DOMAIN table[a]} : a \in DOMAIN table}

(***************************************************************************)
(* The state machine.                                                      *)
(***************************************************************************)
ZeroPose == [k \in 0 .. PoseSize - 1 |-> 0]

\* line 11 / 112: explicit NeuralSignalGenerator(int samplePeriod = 1)
Init ==
    /\ m_samplePeriod \in Periods
    /\ mode = "none"
    /\ pc = "idle"
    /\ startCoords = ZeroPose
    /\ endCoords = ZeroPose
    /\ numSignals = 0
    /\ noiseType = "gaussian"
    /\ noiseAmplitude = 0
    /\ clusterStrength = 0
    /\ seed = 0
    /\ gen = Seeded(0)
    /\ draws = 0
    /\ numSamples = 0
    /\ signals = NoBatch
    /\ clusters = <<>>
    /\ clusterActivation = <<>>
    /\ i = 0
    /\ t = 0
    /\ neuron = 0
    /\ outcome = "none"
    /\ calls = 0
    /\ prev = NoCall
    /\ poseIndices = {}
    /\ channelIndices = {}

\* lines 20-21 / 121-122 and 35 / 128: the generator is seeded from rd(), then the
\* vector is built; a negative count makes its constructor throw std::length_error.
Enter(s, n) ==
    /\ seed' = s
    /\ gen' = Seeded(s)
    /\ draws' = 0
    /\ i' = 0
    /\ t' = 0
    /\ neuron' = 0
    /\ calls' = calls + 1
    /\ IF n < 0
       THEN /\ signals' = NoBatch
            /\ outcome' = "length_error"
            /\ pc' = "done"
       ELSE /\ signals' = Allocate(n)
            /\ outcome' = "none"
            /\ pc' = "signal"

\* lines 115-128: entry of the trajectory generateSignals
EnterTrajectory(s, sc, ec, n) ==
    /\ Enter(s, n)
    /\ numSamples' = NumSamples(sc, ec, m_samplePeriod)
    /\ clusters' = <<>>
    /\ clusterActivation' = <<>>
    /\ poseIndices' = TimeIndex
    /\ channelIndices' = {}

\* lines 15-35: entry of the cluster generateSignals
EnterCluster(s, n) ==
    /\ Enter(s, n)
    /\ clusters' = BuildClusters
    /\ clusterActivation' = <<>>
    /\ numSamples' = 0
    /\ poseIndices' = {}
    /\ channelIndices' = {}

CallTrajectory ==
    /\ pc = "idle"
    /\ \E sc \in StartPoses, ec \in EndPoses, n \in SignalCounts,
          kind \in NoiseTypes, amp \in Amplitudes, s \in Seeds :
            /\ sc[7] <= ec[7]
            /\ mode' = "trajectory"
            /\ startCoords' = sc
            /\ endCoords' = ec
            /\ numSignals' = n
            /\ noiseType' = kind
            /\ noiseAmplitude' = amp
            /\ EnterTrajectory(s, sc, ec, n)
    /\ UNCHANGED <<m_samplePeriod, clusterStrength, prev>>

\* lines 130-136: the first sample of signal i, and the start of the time loop
BeginSignal ==
    /\ pc = "signal"
    /\ mode = "trajectory"
    /\ i < numSignals
    /\ \E beyond \in BeyondArray :
          signals' = [signals EXCEPT ![i] = InitialSample(signals[i], startCoords, beyond)]
    /\ t' = m_samplePeriod
    /\ pc' = "loop"
    /\ poseIndices' = poseIndices \cup InitialPoseIndices
    /\ channelIndices' = channelIndices \cup InitialChannelIndices
    /\ UNCHANGED <<m_samplePeriod, mode, startCoords, endCoords, numSignals, noiseType,
                   noiseAmplitude, clusterStrength, seed, gen, draws, numSamples,
                   clusters, clusterActivation, i, neuron, outcome, calls, prev>>

\* lines 136-159: one iteration of the time loop
Step ==
    /\ pc = "loop"
    /\ t <= endCoords[7]
    /\ signals' = [signals EXCEPT ![i] =
                      Updated(Noised(signals[i], noiseType, noiseAmplitude, t, numSamples,
                                     startCoords, endCoords, gen),
                              t, numSamples, startCoords, endCoords)]
    /\ gen' = Advance(gen, DrawsPerStep(noiseType))
    /\ draws' = draws + DrawsPerStep(noiseType)
    /\ t' = t + m_samplePeriod
    /\ poseIndices' = poseIndices \cup AxisIndices \cup TimeIndex
    /\ channelIndices' = channelIndices \cup NoisedChannelIndices(noiseType)
                                        \cup UpdatedChannelIndices
    /\ UNCHANGED <<m_samplePeriod, mode, pc, startCoords, endCoords, numSignals, noiseType,
                   noiseAmplitude, clusterStrength, seed, numSamples, clusters,
                   clusterActivation, i, neuron, outcome, calls, prev>>

\* line 136 (the test fails) and line 130 (++i)
EndSignal ==
    /\ pc = "loop"
    /\ t > endCoords[7]
    /\ i' = i + 1
    /\ pc' = "signal"
    /\ UNCHANGED <<m_samplePeriod, mode, startCoords, endCoords, numSignals, noiseType,
                   noiseAmplitude, clusterStrength, seed, gen, draws, numSamples, signals,
                   clusters, clusterActivation, t, neuron, outcome, calls, prev,
                   poseIndices, channelIndices>>

CallCluster ==
    /\ pc = "idle"
    /\ \E n \in SignalCounts, strength \in Strengths, s \in Seeds :
            /\ mode' = "cluster"
            /\ numSignals' = n
            /\ clusterStrength' = strength
            /\ EnterCluster(s, n)
    /\ UNCHANGED <<m_samplePeriod, startCoords, endCoords, noiseType, noiseAmplitude, prev>>

\* lines 40-45: the activation of every cluster; the two draws of one sum are
\* unsequenced, so either may come first.
Activate ==
    /\ pc = "signal"
    /\ mode = "cluster"
    /\ i < numSignals
    /\ \E sinFirst \in BOOLEAN :
          clusterActivation' =
              [a \in 0 .. numClusters - 1 |->
                  IF sinFirst
                  THEN Activation(Raw(gen, 2 * a + 1), Raw(gen, 2 * a + 2), clusterStrength)
                  ELSE Activation(Raw(gen, 2 * a + 2), Raw(gen, 2 * a + 1), clusterStrength)]
    /\ gen' = Advance(gen, 2 * numClusters)
    /\ draws' = draws + 2 * numClusters
    /\ pc' = "simulate"
    /\ UNCHANGED <<m_samplePeriod, mode, startCoords, endCoords, numSignals, noiseType,
                   noiseAmplitude, clusterStrength, seed, numSamples, signals, clusters,
                   i, t, neuron, outcome, calls, prev,
                   poseIndices, channelIndices>>

\* lines 48-54: the magnitudes of the neurons of every cluster
Simulate ==
    /\ pc = "simulate"
    /\ LET visits == Visits(clusters, 0)
       IN /\ signals' = [signals EXCEPT ![i] =
                            Simulated(signals[i], visits, 1, clusterActivation, gen)]
          /\ gen' = Advance(gen, Len(visits))
          /\ draws' = draws + Len(visits)
    /\ neuron' = 0
    /\ pc' = "clamp"
    /\ channelIndices' = channelIndices \cup NeuronIndices(clusters)
    /\ UNCHANGED <<m_samplePeriod, mode, startCoords, endCoords, numSignals, noiseType,
                   noiseAmplitude, clusterStrength, seed, numSamples, clusters,
                   clusterActivation, i, t, outcome, calls, prev,
                   poseIndices>>

\* line 58: the clamp of one element of signals[i]
Clamp ==
    /\ pc = "clamp"
    /\ signals' = [signals EXCEPT ![i][neuron] = Clamped(signals[i][neuron])]
    /\ pc' = "noise"
    /\ channelIndices' = channelIndices \cup {neuron}
    /\ UNCHANGED <<m_samplePeriod, mode, startCoords, endCoords, numSignals, noiseType,
                   noiseAmplitude, clusterStrength, seed, gen, draws, numSamples, clusters,
                   clusterActivation, i, t, neuron, outcome, calls, prev,
                   poseIndices>>

\* line 57: the range-for moves to the next element, or signal i is finished
NextNeuron ==
    /\ neuron' = IF neuron + 1 < NumChannels THEN neuron + 1 ELSE 0
    /\ i' = IF neuron + 1 < NumChannels THEN i ELSE i + 1
    /\ pc' = IF neuron + 1 < NumChannels THEN "clamp" ELSE "signal"

\* lines 59-61: the test succeeds and the element is perturbed
Perturb ==
    /\ pc = "noise"
    /\ NoiseChance(Raw(gen, 1))
    /\ signals' = [signals EXCEPT ![i][neuron] = Perturbed(signals[i][neuron], Raw(gen, 2))]
    /\ gen' = Advance(gen, 2)
    /\ draws' = draws + 2
    /\ NextNeuron
    /\ UNCHANGED <<m_samplePeriod, mode, startCoords, endCoords, numSignals, noiseType,
                   noiseAmplitude, clusterStrength, seed, numSamples, clusters,
                   clusterActivation, t, outcome, calls, prev,
                   poseIndices, channelIndices>>

\* line 59: the test fails
KeepClamped ==
    /\ pc = "noise"
    /\ ~NoiseChance(Raw(gen, 1))
    /\ gen' = Advance(gen, 1)
    /\ draws' = draws + 1
    /\ NextNeuron
    /\ UNCHANGED <<m_samplePeriod, mode, startCoords, endCoords, numSignals, noiseType,
                   noiseAmplitude, clusterStrength, seed, numSamples, signals, clusters,
                   clusterActivation, t, outcome, calls, prev,
                   poseIndices, channelIndices>>

\* lines 65 / 162: return signals
Return ==
    /\ pc = "signal"
    /\ i >= numSignals
    /\ outcome' = "returned"
    /\ pc' = "done"
    /\ UNCHANGED <<m_samplePeriod, mode, startCoords, endCoords, numSignals, noiseType,
                   noiseAmplitude, clusterStrength, seed, gen, draws, numSamples, signals,
                   clusters, clusterActivation, i, t, neuron, calls, prev,
                   poseIndices, channelIndices>>

\* a second call on the same generator with the same arguments
CallAgain ==
    /\ pc = "done"
    /\ calls = 1
    /\ prev' = [seed |-> seed, signals |-> signals, outcome |-> outcome]
    /\ \E s \in Seeds :
          IF mode = "trajectory"
          THEN EnterTrajectory(s, startCoords, endCoords, numSignals)
          ELSE EnterCluster(s, numSignals)
    /\ UNCHANGED <<m_samplePeriod, mode, startCoords, endCoords, numSignals, noiseType,
                   noiseAmplitude, clusterStrength>>

Next ==
    \/ CallTrajectory
    \/ BeginSignal
    \/ Step
    \/ EndSignal
    \/ CallCluster
    \/ Activate
    \/ Simulate
    \/ Clamp
    \/ Perturb
    \/ KeepClamped
    \/ Return

Spec == Init /\ [][Next]_vars

NextRepeat == Next \/ CallAgain

SpecRepeat == Init /\ [][NextRepeat]_vars

(***************************************************************************)
(* Vocabulary of the properties.                                           *)
(***************************************************************************)
Recognized == {"gaussian", "uniform"}

Size(f) == Cardinality(DOMAIN f)

\* number of 12-element Channel Vectors one entry of the batch holds
VectorsIn(entry) == Size(entry) \div NumChannels

Duration == endCoords[7] - startCoords[7]

\* N = floor(D / samplePeriod) + 1
StepCount == (Duration \div m_samplePeriod) + 1

\* integer part of (start + (end - start) * tt / N) * 1024 on axis c
Expected(c, tt) ==
    TruncDiv((startCoords[c] * StepCount + (endCoords[c] - startCoords[c]) * tt) * 1024,
             StepCount)

\* the time of the last iteration the time loop has run for signal k, 0 if none
LastTime(k) ==
    IF k = i /\ pc = "loop" THEN t - m_samplePeriod
    ELSE IF k < i THEN m_samplePeriod * (endCoords[7] \div m_samplePeriod)
    ELSE 0

ValidTrajectoryCall ==
    /\ mode = "trajectory"
    /\ numSignals >= 1
    /\ noiseAmplitude >= 0
    /\ endCoords[7] >= startCoords[7]
    /\ m_samplePeriod >= 1

ValidClusterCall ==
    /\ mode = "cluster"
    /\ numSignals >= 1
    /\ clusterStrength >= 0
    /\ clusterStrength <= 2

\* C1: every valid call of either strategy returns a batch of exactly numSignals
\* entries, whatever the generator drew.
BatchHasNumSignals ==
    (outcome = "returned" /\ (ValidTrajectoryCall \/ ValidClusterCall))
        => Size(signals) = numSignals

BatchReturnedAfterDraws ==
    /\ outcome = "returned"
    /\ ValidClusterCall
    /\ numSignals = MaxSignals
    /\ draws > 0
    /\ Size(signals) = MaxSignals

\* C2: in trajectory mode every Signal of the returned batch is a sequence of
\* floor((end.time - start.time) / samplePeriod) + 1 Channel Vectors of 12 elements.
SignalHoldsEveryTimeStep ==
    (outcome = "returned" /\ ValidTrajectoryCall)
        => \A k \in DOMAIN signals :
              /\ VectorsIn(signals[k]) = StepCount
              /\ Size(signals[k]) = StepCount * NumChannels

\* C3: in trajectory mode with noiseAmplitude = 0 and a recognized noise kind,
\* after the iteration for time tt channels 0, 1 and 2 hold the integer part of
\* (start + (end - start) * tt / N) * 1024, the same for every signal.
ZeroNoiseIsExactInterpolation ==
    (ValidTrajectoryCall /\ noiseAmplitude = 0 /\ noiseType \in Recognized
        /\ signals # NoBatch)
        => \A k \in DOMAIN signals :
              LastTime(k) >= m_samplePeriod
                  => \A c \in 0 .. 2 : signals[k][c] = Expected(c, LastTime(k))

SecondSignalInterpolated ==
    /\ ValidTrajectoryCall
    /\ noiseAmplitude = 0
    /\ noiseType = "gaussian"
    /\ pc = "loop"
    /\ i = 1
    /\ t = 3 * m_samplePeriod
    /\ startCoords[0] < 0
    /\ signals[1][0] = Expected(0, 2 * m_samplePeriod)
    /\ signals[1][0] = signals[0][0]
    /\ signals[1][1] # 0

\* C4: in cluster mode with 0 <= clusterStrength <= 1, a channel lies in [0, 200]
\* right after its clamp and before its perturbation, and every channel of the
\* returned batch lies in [-25, 225].
ClusterChannelBounds ==
    ValidClusterCall
        => /\ pc = "noise" => signals[i][neuron] \in 0 .. 200
           /\ outcome = "returned"
                 => \A k \in DOMAIN signals : \A c \in Channels :
                       signals[k][c] \in -25 .. 225

PerturbedBelowClamp ==
    /\ ValidClusterCall
    /\ outcome = "returned"
    /\ \E k \in DOMAIN signals : \E c, d \in Channels :
          /\ signals[k][c] < 0
          /\ signals[k][d] > 100

\* C5: the cluster table maps the 5 clusters of sizes 4, 3, 2, 2, 1 to contiguous,
\* pairwise disjoint blocks that cover the channels 0..11, so that every channel
\* is populated by exactly one cluster.
ClustersPartitionChannels ==
    (mode = "cluster" /\ clusters # <<>>)
        => /\ \A a \in DOMAIN clusters :
                /\ Len(clusters[a]) = clusterSizes[a + 1]
                /\ \A b \in 1 .. Len(clusters[a]) - 1 :
                      clusters[a][b + 1] = clusters[a][b] + 1
           /\ \A c \in Channels :
                Cardinality({a \in DOMAIN clusters :
                                \E b \in 1 .. Len(clusters[a]) : clusters[a][b] = c}) = 1

\* C6: in trajectory mode with start.time = end.time the time loop runs no
\* iteration and every Signal is one Channel Vector, the initial sample.
DegenerateTrajectoryHasNoStep ==
    (ValidTrajectoryCall /\ startCoords[7] = endCoords[7])
        => /\ pc = "loop" => t = m_samplePeriod
           /\ outcome = "returned"
                 => \A k \in DOMAIN signals :
                       /\ VectorsIn(signals[k]) = 1
                       /\ \E beyond \in BeyondArray :
                             signals[k] = InitialSample(ZeroVector, startCoords, beyond)

InvalidConfiguration ==
    /\ mode # "none"
    /\ \/ numSignals <= 0
       \/ m_samplePeriod <= 0
       \/ mode = "trajectory" /\ noiseAmplitude < 0
       \/ mode = "cluster" /\ (clusterStrength < 0 \/ clusterStrength > 2)

\* C7: a call with an invalid configuration takes no random draw, never returns
\* a batch, and ends in an error (the only error outcome of the code is the
\* exception of the vector constructor).
InvalidConfigurationIsRejected ==
    InvalidConfiguration
        => /\ draws = 0
           /\ outcome # "returned"
           /\ pc = "done" => (outcome = "length_error" /\ signals = NoBatch)

\* C8: two calls with identical parameters and an identical seed return
\* identical batches.
SameSeedSameBatch ==
    (calls = 2 /\ pc = "done" /\ prev.seed = seed)
        => (signals = prev.signals /\ outcome = prev.outcome)

\* C9: in trajectory mode with an unrecognized noise kind, after every iteration
\* channels 0, 1 and 2 hold the unperturbed interpolated, scaled x, y and z.
UnrecognizedNoisePassesThrough ==
    (ValidTrajectoryCall /\ noiseType \notin Recognized /\ signals # NoBatch)
        => \A k \in DOMAIN signals :
              LastTime(k) >= m_samplePeriod
                  => \A c \in 0 .. 2 : signals[k][c] = Expected(c, LastTime(k))

\* C10: in trajectory mode every iteration writes the scaled noise-free x into
\* channels 3, 4 and 5 only; channels 6 to 11 keep their initial value 0.
StepWritesOnlyChannels3To5 ==
    (ValidTrajectoryCall /\ signals # NoBatch)
        => \A k \in DOMAIN signals :
              /\ LastTime(k) >= m_samplePeriod
                    => \A c \in 3 .. 5 : signals[k][c] = Expected(0, LastTime(k))
              /\ \A c \in 6 .. 11 : signals[k][c] = 0

\* C11: during a call of either strategy every index applied to a pose is in
\* 0..7 and every index applied to a Channel Vector (the neuron indices of the
\* cluster table included) is in 0..11.
EveryIndexInBounds ==
    /\ poseIndices \subseteq 0 .. PoseSize - 1
    /\ channelIndices \subseteq Channels
    /\ clusters # <<>> => NeuronIndices(clusters) \subseteq Channels

====
